---------------------------- MODULE Spec2Model ----------------------------
(***************************************************************************)
(* Model of the expense tracker: ExpenseTracker (src/src/expense_tracker.py)*)
(* over AWSClient (src/src/aws_client.py).                                  *)
(*                                                                          *)
(* Strings are sequences of one-character strings, so that str.strip() and  *)
(* str.lower() are computed and not assumed; the characters are those a     *)
(* string of the model can hold, U+0001 to U+00FF.  Amounts are integers in *)
(* thousandths of the currency unit (1236 is the float nearest to 1.236),   *)
(* so that round(amount, 2) is computed, as Python computes it on floats.   *)
(* The timestamp fields 'date' and 'created_at' of an expense are not       *)
(* modelled, and neither is the 'recent_expenses' part of the summary.      *)
(***************************************************************************)
EXTENDS Integers, Sequences, FiniteSets, TLC

\* Bound: add_expense is explored while the ledger holds fewer records.
MaxLen == 3

\* The tracker processes of the model.
Procs == {1}

\* Characters that str.strip() removes (those with str.isspace()), among the
\* characters a string of the model can hold, U+0000 to U+00FF: U+0009 to
\* U+000D, U+001C to U+001F, U+0020, U+0085 and U+00A0.
Whitespace ==
    {"\t", "\n", "", "\f", "\r", "", "", "", "", " ", "", " "}

\* Inputs of add_expense, as <<description, amount, category>>: two that
\* pass validation (one to trim and to round up, one below 0.005) and four
\* that do not (empty and blank description, zero and negative amount).
AddInputs ==
    { << <<" ", "a">>, 1236, <<"F">> >>,
      << <<"b", " ">>, 4, <<" ", "f">> >>,
      << <<>>, 1236, <<"F">> >>,
      << <<"\r", "\t">>, 1236, <<"f">> >>,
      << <<"b">>, 0, <<"F">> >>,
      << <<" ", "a">>, -125, <<"f">> >> }

\* Inputs of delete_expense: every id a ledger can hold and one more.
Ids == 1 .. (MaxLen + 1)

Expense(i, d, a, c) == [id |-> i, description |-> d, amount |-> a, category |-> c]

\* Snapshots that can be in storage when the process starts.
InitSnapshots ==
    { <<>>,
      << Expense(1, <<"a">>, 1240, <<"F">>) >>,
      << Expense(1, <<"a">>, 1240, <<"F">>),
         Expense(2, <<"b">>, 4500, <<"f">>),
         Expense(3, <<"a">>, 1240, <<"F">>) >> }

VARIABLES
    expenses,   \* expenses[p]: self.expenses of tracker process p
    remote,     \* the object expenses/default/expenses.json: [exists, data]
    loadOk,     \* loadOk[p]: the startup download of p did not fail
    last,       \* the last call: its arguments, what it saw and what it returned
    lastOf,     \* lastOf[p]: the last call of process p
    balance     \* storage writes attempted so far, minus the add and delete
                \* calls so far that passed validation or lookup

vars == << expenses, remote, loadOk, last, lastOf, balance >>

----------------------------------------------------------------------------
(* str.strip() *)

RECURSIVE LStrip(_)
LStrip(s) ==
    IF s # <<>> /\ Head(s) \in Whitespace THEN LStrip(Tail(s)) ELSE s

RECURSIVE RStrip(_)
RStrip(s) ==
    IF s # <<>> /\ s[Len(s)] \in Whitespace
    THEN RStrip(SubSeq(s, 1, Len(s) - 1))
    ELSE s

Strip(s) == RStrip(LStrip(s))

\* Mutant of Round2: the digits after the second decimal are cut off.
Round2Truncates(m) == 10 * (m \div 10)

(* The amount m thousandths is the float nearest to m/1000, a multiple of   *)
(* 2^(-e) with 2^52 <= (m/1000) * 2^e < 2^53.  FloatExponent(m) is that e,  *)
(* for m >= 1.                                                              *)
RECURSIVE Halvings(_)
Halvings(n) == IF n < 2 THEN 0 ELSE 1 + Halvings(n \div 2)

RECURSIVE Doublings(_)
Doublings(n) == IF n >= 1000 THEN 0 ELSE 1 + Doublings(2 * n)

FloatExponent(m) ==
    IF m >= 1000 THEN 52 - Halvings(m \div 1000) ELSE 52 + Doublings(m)

RECURSIVE Pow2Mod1000(_)
Pow2Mod1000(e) == IF e = 0 THEN 1 ELSE (2 * Pow2Mod1000(e - 1)) % 1000

(* (m * 2^e) mod 1000 for e = FloatExponent(m): 0 when the float is m/1000  *)
(* exactly, below 500 when the float is less than m/1000 (the quotient was  *)
(* rounded down), above 500 when it is greater.  It is never 500, since 8   *)
(* divides both m * 2^e and 1000.                                           *)
FloatRemainder(m) == ((m % 1000) * Pow2Mod1000(FloatExponent(m))) % 1000

(* round(x, 2) of the float x nearest to m/1000, m >= 0, in thousandths.    *)
(* round() rounds the exact value of the float, a tie to the even           *)
(* hundredth.  The float is a tie only when m/1000 is one exactly (0.125,   *)
(* 0.375, ...); for any other m ending in 5 the float lies on one side of   *)
(* m/1000 and decides: round(0.005, 2) = 0.01, round(0.015, 2) = 0.01.      *)
Round2Positive(m) ==
    LET q == m \div 10
        d == m % 10
    IN  IF d < 5 THEN 10 * q
        ELSE IF d > 5 THEN 10 * (q + 1)
        ELSE IF FloatRemainder(m) = 0
             THEN (IF q % 2 = 0 THEN 10 * q ELSE 10 * (q + 1))
             ELSE IF FloatRemainder(m) < 500 THEN 10 * q ELSE 10 * (q + 1)

\* round(amount, 2), in thousandths; round(-x, 2) = -round(x, 2).
Round2(m) ==
    IF m = 0 THEN 0
    ELSE IF m < 0 THEN 0 - Round2Positive(0 - m)
    ELSE Round2Positive(m)

----------------------------------------------------------------------------
(* AWSClient *)

NoObject == [exists |-> FALSE, data |-> <<>>]

\* s3_client.put_object inside upload_expenses_to_s3: the whole object is
\* replaced when the put succeeds, and nothing changes when it raises.
PutObject(rem, data, ok) ==
    IF ok THEN [exists |-> TRUE, data |-> data] ELSE rem

(* log_action.  The log service answers a call in one of these ways:       *)
(* create_log_stream creates the stream, finds it existing or fails, and    *)
(* put_log_events succeeds or fails.  One answer holds for a whole call of  *)
(* the tracker.                                                             *)
LogOutcomes ==
    { [stream |-> "created", put |-> TRUE],
      [stream |-> "exists", put |-> TRUE],
      [stream |-> "error", put |-> TRUE],
      [stream |-> "exists", put |-> FALSE] }

\* The log service at work.
LogUp == [stream |-> "exists", put |-> TRUE]

\* The body of log_action raises when create_log_stream fails with anything
\* but ResourceAlreadyExistsException (re-raised by the inner handler) or
\* when put_log_events fails.
LogBodyRaises(lg) == lg.stream = "error" \/ ~lg.put

\* Mutant of LogHandlerCatches: only the failure of put_log_events is caught.
LogHandlerCatchesPutOnly(lg) == lg.stream # "error" /\ ~lg.put

\* The outer 'except Exception' of log_action catches whatever the body raises.
LogHandlerCatches(lg) == LogBodyRaises(lg)

\* An exception leaves log_action.
LogRaises(lg) == LogBodyRaises(lg) /\ ~LogHandlerCatches(lg)

\* The event reaches the log stream.
LogDelivered(lg) == ~LogBodyRaises(lg)

\* What a call does, in order: steps on the list, puts and log_action calls.
Step(kind, level, info, ok) == [kind |-> kind, level |-> level, info |-> info, ok |-> ok]

LogStep(level, info, lg) == Step("log", level, info, LogDelivered(lg))

\* An exception leaves upload_expenses_to_s3: log_action raised in the try
\* block or in the handler, and raises again in the handler.
UploadRaises(ok, lg) == LogRaises(lg)

\* upload_expenses_to_s3 returns True: put_object and log_action returned.
UploadResult(ok, lg) == ok /\ ~LogRaises(lg)

\* Mutant of UploadSteps: a failed put is tried a second time.
UploadStepsRetries(data, ok, lg) ==
    << Step("put", "", data, ok) >>
    \o (IF ok
        THEN << LogStep("UPLOAD", <<>>, lg) >>
        ELSE << Step("put", "", data, ok), LogStep("ERROR", <<>>, lg) >>)

\* The steps of upload_expenses_to_s3.
UploadSteps(data, ok, lg) ==
    << Step("put", "", data, ok) >>
    \o (IF ok
        THEN << LogStep("UPLOAD", <<>>, lg) >>
             \o (IF LogRaises(lg) THEN << LogStep("ERROR", <<>>, lg) >> ELSE <<>>)
        ELSE << LogStep("ERROR", <<>>, lg) >>)

\* download_expenses_from_s3: the stored records, or [] when the object is
\* missing (NoSuchKey) or when the get or the parse fails.
Download(rem, fails) ==
    IF fails \/ ~rem.exists THEN <<>> ELSE rem.data

\* What can go wrong in download_expenses_from_s3 besides a missing object:
\* get_object raises another ClientError, or the body read does not parse.
DownloadFaults == { "none", "client", "parse" }

\* Mutant of DownloadSteps: a ClientError other than NoSuchKey is not logged.
DownloadStepsSilentClientError(rem, fault, lg) ==
    IF fault = "client" THEN << Step("get", "", <<>>, FALSE) >>
    ELSE IF ~rem.exists
    THEN << Step("get", "", <<>>, FALSE), LogStep("INFO", <<>>, lg) >>
    ELSE IF fault = "parse"
    THEN << Step("get", "", <<>>, TRUE), LogStep("ERROR", <<>>, lg) >>
    ELSE << Step("get", "", <<>>, TRUE), LogStep("DOWNLOAD", <<>>, lg) >>

\* The steps of download_expenses_from_s3: the get, then one log_action call
\* (DOWNLOAD, INFO for NoSuchKey, ERROR otherwise); when log_action raises
\* after a successful parse, the generic handler logs ERROR as well.
DownloadSteps(rem, fault, lg) ==
    IF fault = "client"
    THEN << Step("get", "", <<>>, FALSE), LogStep("ERROR", <<>>, lg) >>
    ELSE IF ~rem.exists
    THEN << Step("get", "", <<>>, FALSE), LogStep("INFO", <<>>, lg) >>
    ELSE IF fault = "parse"
    THEN << Step("get", "", <<>>, TRUE), LogStep("ERROR", <<>>, lg) >>
    ELSE << Step("get", "", <<>>, TRUE), LogStep("DOWNLOAD", <<>>, lg) >>
         \o (IF LogRaises(lg) THEN << LogStep("ERROR", <<>>, lg) >> ELSE <<>>)

\* An exception leaves download_expenses_from_s3: in every branch the last
\* log_action call is in a handler or is followed by one that calls it again.
DownloadRaises(rem, fault, lg) == LogRaises(lg)

----------------------------------------------------------------------------
(* ExpenseTracker *)

NoSummary == [total_expenses |-> -1, total_amount |-> -1, categories |-> <<>>]

NoCall ==
    [op |-> "init", proc |-> 1, pre |-> <<>>, preRemote |-> NoObject,
     description |-> <<>>, amount |-> 0, category |-> <<>>, id |-> 0,
     wrote |-> FALSE, putOk |-> FALSE, ret |-> FALSE, summary |-> NoSummary,
     lg |-> LogUp, raised |-> FALSE, steps |-> <<>>,
     fault |-> "none", filter |-> <<>>, shown |-> <<>>]

\* What every call records: who called, and the ledger and the object before.
Call(op, p) ==
    [NoCall EXCEPT !.op = op, !.proc = p, !.pre = expenses[p], !.preRemote = remote]

(* add_expense *)

\* Mutant of ValidAmount: an amount of 0 passes.
ValidAmountAllowsZero(amount) == amount >= 0

ValidAmount(amount) == amount > 0

ValidDescription(description) == Strip(description) # <<>>

AddAccepts(description, amount) ==
    ValidAmount(amount) /\ ValidDescription(description)

NewExpense(exps, description, amount, category) ==
    Expense(Len(exps) + 1, Strip(description), Round2(amount), Strip(category))

\* Mutant of PopLast: the appended record is not removed.
PopLastForgotten(exps) == exps

\* self.expenses.pop()
PopLast(exps) == SubSeq(exps, 1, Len(exps) - 1)

\* self.expenses when add_expense returns: the record is appended, and popped
\* again when the upload fails.
\* When the upload raises, the handler of add_expense returns False and the
\* record stays.
AddLedger(exps, description, amount, category, ok, lg) ==
    IF ~AddAccepts(description, amount) THEN exps
    ELSE LET appended == Append(exps, NewExpense(exps, description, amount, category))
         IN  IF UploadRaises(ok, lg) \/ UploadResult(ok, lg)
             THEN appended
             ELSE PopLast(appended)

\* Mutant of AddRemote: the new record is appended to what is stored.
AddRemoteMerges(rem, exps, description, amount, category, ok) ==
    IF ~AddAccepts(description, amount) THEN rem
    ELSE PutObject(rem,
                   Append(IF rem.exists THEN rem.data ELSE <<>>,
                          NewExpense(exps, description, amount, category)),
                   ok)

\* The object when add_expense returns: the upload is of the appended list.
AddRemote(rem, exps, description, amount, category, ok) ==
    IF ~AddAccepts(description, amount) THEN rem
    ELSE PutObject(rem, Append(exps, NewExpense(exps, description, amount, category)), ok)

AddReturn(description, amount, ok, lg) ==
    AddAccepts(description, amount) /\ UploadResult(ok, lg)

\* The steps of add_expense: append, upload, then the audit entry or the pop.
AddSteps(exps, description, amount, category, ok, lg) ==
    IF ~AddAccepts(description, amount) THEN <<>>
    ELSE LET appended == Append(exps, NewExpense(exps, description, amount, category))
         IN  << Step("append", "", <<>>, TRUE) >>
             \o UploadSteps(appended, ok, lg)
             \o (IF UploadRaises(ok, lg) THEN <<>>
                 ELSE IF UploadResult(ok, lg)
                 THEN << LogStep("ADD_EXPENSE", <<>>, lg) >>
                 ELSE << Step("pop", "", <<>>, TRUE) >>)

\* The puts among the steps of a call.
NumPuts(steps) == Cardinality({ i \in 1 .. Len(steps) : steps[i].kind = "put" })

AddExpense(p, description, amount, category, ok, lg) ==
    /\ AddAccepts(description, amount) => Len(expenses[p]) < MaxLen
    /\ expenses' = [expenses EXCEPT
                      ![p] = AddLedger(expenses[p], description, amount, category,
                                       ok, lg)]
    /\ remote' = AddRemote(remote, expenses[p], description, amount, category, ok)
    /\ last' = [Call("add", p) EXCEPT
                  !.description = description, !.amount = amount,
                  !.category = category,
                  !.wrote = AddAccepts(description, amount),
                  !.putOk = AddAccepts(description, amount) /\ ok,
                  !.ret = AddReturn(description, amount, ok, lg),
                  !.lg = lg,
                  !.raised = AddAccepts(description, amount) /\ UploadRaises(ok, lg),
                  !.steps = AddSteps(expenses[p], description, amount, category,
                                     ok, lg)]
    /\ balance' = balance
                   + NumPuts(AddSteps(expenses[p], description, amount, category,
                                      ok, lg))
                   - (IF AddAccepts(description, amount) THEN 1 ELSE 0)
    /\ lastOf' = [lastOf EXCEPT ![p] = last']
    /\ UNCHANGED loadOk

(* delete_expense *)

\* The loop of delete_expense: the index of the first record whose id is
\* expense_id, 0 when no record has it.
RECURSIVE FindFrom(_, _, _)
FindFrom(exps, expense_id, i) ==
    IF i > Len(exps) THEN 0
    ELSE IF exps[i].id = expense_id THEN i
    ELSE FindFrom(exps, expense_id, i + 1)

\* Mutant of FindExpense: the last record with the id is taken, not the first.
FindLastExpense(exps, expense_id) ==
    IF \E i \in 1 .. Len(exps) : exps[i].id = expense_id
    THEN CHOOSE i \in 1 .. Len(exps) :
            /\ exps[i].id = expense_id
            /\ \A j \in (i + 1) .. Len(exps) : exps[j].id # expense_id
    ELSE 0

FindExpense(exps, expense_id) == FindFrom(exps, expense_id, 1)

\* self.expenses.pop(i)
PopAt(exps, i) == SubSeq(exps, 1, i - 1) \o SubSeq(exps, i + 1, Len(exps))

\* self.expenses when delete_expense returns: the match is popped, and
\* appended again when the upload fails.
\* When the upload raises, the handler of delete_expense returns False and
\* the record stays removed.
DeleteLedger(exps, expense_id, ok, lg) ==
    LET i == FindExpense(exps, expense_id)
    IN  IF i = 0 THEN exps
        ELSE IF UploadRaises(ok, lg) \/ UploadResult(ok, lg) THEN PopAt(exps, i)
        ELSE Append(PopAt(exps, i), exps[i])

\* The object when delete_expense returns: the upload is of the popped list.
DeleteRemote(rem, exps, expense_id, ok) ==
    LET i == FindExpense(exps, expense_id)
    IN  IF i = 0 THEN rem ELSE PutObject(rem, PopAt(exps, i), ok)

\* delete_expense uploads only when a record was found.
DeleteUploads(exps, expense_id) == FindExpense(exps, expense_id) # 0

\* Mutant of DeleteReturn: the result of the lookup is not looked at.
DeleteReturnIgnoresLookup(exps, expense_id, ok, lg) == UploadResult(ok, lg)

DeleteReturn(exps, expense_id, ok, lg) ==
    DeleteUploads(exps, expense_id) /\ UploadResult(ok, lg)

\* The steps of delete_expense: pop, upload, then the audit entry or the
\* append.
DeleteSteps(exps, expense_id, ok, lg) ==
    LET i == FindExpense(exps, expense_id)
    IN  IF i = 0 THEN <<>>
        ELSE << Step("pop", "", <<>>, TRUE) >>
             \o UploadSteps(PopAt(exps, i), ok, lg)
             \o (IF UploadRaises(ok, lg) THEN <<>>
                 ELSE IF UploadResult(ok, lg)
                 THEN << LogStep("DELETE_EXPENSE", <<>>, lg) >>
                 ELSE << Step("append", "", <<>>, TRUE) >>)

DeleteExpense(p, expense_id, ok, lg) ==
    /\ expenses' = [expenses EXCEPT
                      ![p] = DeleteLedger(expenses[p], expense_id, ok, lg)]
    /\ remote' = DeleteRemote(remote, expenses[p], expense_id, ok)
    /\ last' = [Call("delete", p) EXCEPT
                  !.id = expense_id,
                  !.wrote = DeleteUploads(expenses[p], expense_id),
                  !.putOk = DeleteUploads(expenses[p], expense_id) /\ ok,
                  !.ret = DeleteReturn(expenses[p], expense_id, ok, lg),
                  !.lg = lg,
                  !.raised = DeleteUploads(expenses[p], expense_id)
                             /\ UploadRaises(ok, lg),
                  !.steps = DeleteSteps(expenses[p], expense_id, ok, lg)]
    /\ balance' = balance
                   + NumPuts(DeleteSteps(expenses[p], expense_id, ok, lg))
                   - (IF DeleteUploads(expenses[p], expense_id) THEN 1 ELSE 0)
    /\ lastOf' = [lastOf EXCEPT ![p] = last']
    /\ UNCHANGED loadOk

(* get_expense_summary *)

\* sum(exp['amount'] for exp in self.expenses)
RECURSIVE SumAmounts(_)
SumAmounts(exps) ==
    IF exps = <<>> THEN 0 ELSE Head(exps).amount + SumAmounts(Tail(exps))

\* Mutant of GroupByCategory: a category seen again starts over instead of
\* accumulating.
RECURSIVE GroupByCategoryOverwrites(_, _)
GroupByCategoryOverwrites(exps, categories) ==
    IF exps = <<>> THEN categories
    ELSE LET e == Head(exps)
             c == e.category
         IN  GroupByCategoryOverwrites(Tail(exps),
                 [k \in DOMAIN categories \cup {c} |->
                     IF k = c THEN [count |-> 1, amount |-> e.amount]
                     ELSE categories[k]])

\* The loop that fills the categories dict, one expense at a time.
RECURSIVE GroupByCategory(_, _)
GroupByCategory(exps, categories) ==
    IF exps = <<>> THEN categories
    ELSE LET e == Head(exps)
             c == e.category
             known == IF c \in DOMAIN categories
                      THEN categories
                      ELSE [k \in DOMAIN categories \cup {c} |->
                              IF k = c THEN [count |-> 0, amount |-> 0]
                              ELSE categories[k]]
         IN  GroupByCategory(Tail(exps),
                 [known EXCEPT ![c] = [count |-> @.count + 1,
                                       amount |-> @.amount + e.amount]])

\* The summary dict.  The amounts of the records are whole hundredths, as
\* add_expense stores them; the float sum of such amounts rounds to their
\* exact sum.
ExpenseSummary(exps) ==
    IF exps = <<>>
    THEN [total_expenses |-> 0, total_amount |-> 0, categories |-> <<>>]
    ELSE [total_expenses |-> Len(exps),
          total_amount |-> Round2(SumAmounts(exps)),
          categories |-> GroupByCategory(exps, <<>>)]

\* get_expense_summary logs once, and only when the ledger is not empty.
SummarySteps(exps, lg) ==
    IF exps = <<>> THEN <<>> ELSE << LogStep("VIEW_SUMMARY", <<>>, lg) >>

\* When log_action raises, the handler of get_expense_summary returns {}.
SummaryResult(exps, lg) ==
    IF exps # <<>> /\ LogRaises(lg) THEN NoSummary ELSE ExpenseSummary(exps)

GetExpenseSummary(p, lg) ==
    /\ last' = [Call("summary", p) EXCEPT
                  !.ret = TRUE, !.summary = SummaryResult(expenses[p], lg),
                  !.lg = lg, !.steps = SummarySteps(expenses[p], lg)]
    /\ lastOf' = [lastOf EXCEPT ![p] = last']
    /\ UNCHANGED << expenses, remote, loadOk, balance >>

(* view_expenses *)

\* The characters that str.lower() changes, among U+0000 to U+00FF (A to Z
\* and the upper-case letters U+00C0 to U+00DE), and what it makes of them.
UpperChars ==
    << "A", "B", "C", "D", "E", "F", "G", "H", "I", "J", "K", "L", "M",
       "N", "O", "P", "Q", "R", "S", "T", "U", "V", "W", "X", "Y", "Z",
       "À", "Á", "Â", "Ã", "Ä", "Å", "Æ", "Ç", "È", "É", "Ê", "Ë", "Ì",
       "Í", "Î", "Ï", "Ð", "Ñ", "Ò", "Ó", "Ô", "Õ", "Ö", "Ø", "Ù", "Ú",
       "Û", "Ü", "Ý", "Þ" >>

LowerChars ==
    << "a", "b", "c", "d", "e", "f", "g", "h", "i", "j", "k", "l", "m",
       "n", "o", "p", "q", "r", "s", "t", "u", "v", "w", "x", "y", "z",
       "à", "á", "â", "ã", "ä", "å", "æ", "ç", "è", "é", "ê", "ë", "ì",
       "í", "î", "ï", "ð", "ñ", "ò", "ó", "ô", "õ", "ö", "ø", "ù", "ú",
       "û", "ü", "ý", "þ" >>

\* str.lower() of one character.
LowerChar(ch) ==
    IF \E i \in 1 .. Len(UpperChars) : UpperChars[i] = ch
    THEN LowerChars[CHOOSE i \in 1 .. Len(UpperChars) : UpperChars[i] = ch]
    ELSE ch

Lower(s) == [i \in 1 .. Len(s) |-> LowerChar(s[i])]

\* Inputs of view_expenses; <<>> is no filter (None or '').
ViewFilters == { <<>>, <<"F">>, <<"b">> }

RECURSIVE FilterCategory(_, _)
FilterCategory(exps, category_filter) ==
    IF exps = <<>> THEN <<>>
    ELSE IF Lower(Head(exps).category) = Lower(category_filter)
    THEN << Head(exps) >> \o FilterCategory(Tail(exps), category_filter)
    ELSE FilterCategory(Tail(exps), category_filter)

\* expenses_to_show
ViewShown(exps, category_filter) ==
    IF category_filter = <<>> THEN exps ELSE FilterCategory(exps, category_filter)

\* view_expenses returns before the log_action call when the ledger is empty
\* and when the filter matches nothing.
ViewSteps(exps, category_filter, lg) ==
    IF exps = <<>> \/ ViewShown(exps, category_filter) = <<>> THEN <<>>
    ELSE << LogStep("VIEW_EXPENSES",
                    << category_filter, Len(ViewShown(exps, category_filter)) >>, lg) >>

ViewExpenses(p, category_filter, lg) ==
    /\ last' = [Call("view", p) EXCEPT
                  !.filter = category_filter,
                  !.shown = ViewShown(expenses[p], category_filter),
                  !.lg = lg,
                  !.steps = ViewSteps(expenses[p], category_filter, lg)]
    /\ lastOf' = [lastOf EXCEPT ![p] = last']
    /\ UNCHANGED << expenses, remote, loadOk, balance >>

----------------------------------------------------------------------------

\* ExpenseTracker.__init__ of the processes procs: each downloads the object.
Startup(procs, snap, exists, fault, lg) ==
    /\ remote = [exists |-> exists, data |-> snap]
    /\ expenses = [p \in procs |-> Download(remote, fault # "none")]
    /\ loadOk = [p \in procs |-> fault = "none"]
    /\ last = [NoCall EXCEPT
                 !.preRemote = remote, !.fault = fault, !.lg = lg,
                 !.raised = DownloadRaises(remote, fault, lg),
                 !.steps = DownloadSteps(remote, fault, lg)]
    /\ lastOf = [p \in procs |-> last]
    /\ balance = 0

Init ==
    \E snap \in InitSnapshots, exists \in BOOLEAN, fails \in BOOLEAN :
       /\ (~exists => snap = <<>>)
       /\ Startup(Procs, snap, exists, IF fails THEN "client" ELSE "none", LogUp)

\* One tracker process, the log service at work.
Next ==
    \/ \E p \in Procs, in \in AddInputs, ok \in BOOLEAN :
         AddExpense(p, in[1], in[2], in[3], ok, LogUp)
    \/ \E p \in Procs, id \in Ids, ok \in BOOLEAN :
         DeleteExpense(p, id, ok, LogUp)
    \/ \E p \in Procs : GetExpenseSummary(p, LogUp)

Spec == Init /\ [][Next]_vars

\* Snapshots in storage at the start of SpecLog.
LogSnapshots ==
    { <<>>,
      << Expense(1, <<"a">>, 1240, <<"F">>),
         Expense(2, <<"b">>, 4500, <<"f">>) >> }

\* Bound: in SpecLog add_expense is explored while the ledger holds fewer
\* records.
MaxLogLen == 2

\* Inputs of add_expense in SpecLog: one that passes validation (1.245,
\* whose float is above the tie and is stored as 1.25), one that does not.
LogAddInputs ==
    { << <<" ", "a">>, 1245, <<"F">> >>,
      << <<" ", "\f">>, 1236, <<"f">> >> }

\* One tracker process, the log service answering in any way.
InitLog ==
    \E snap \in LogSnapshots, exists \in BOOLEAN, fault \in DownloadFaults,
       lg \in LogOutcomes :
       /\ (~exists => snap = <<>>)
       /\ (fault = "parse" => exists)
       /\ Startup(Procs, snap, exists, fault, lg)

NextLog ==
    \/ \E p \in Procs, in \in LogAddInputs, ok \in BOOLEAN, lg \in LogOutcomes :
         /\ AddAccepts(in[1], in[2]) => Len(expenses[p]) < MaxLogLen
         /\ AddExpense(p, in[1], in[2], in[3], ok, lg)
    \/ \E p \in Procs, id \in Ids, ok \in BOOLEAN, lg \in LogOutcomes :
         DeleteExpense(p, id, ok, lg)
    \/ \E p \in Procs, lg \in LogOutcomes : GetExpenseSummary(p, lg)
    \/ \E p \in Procs, f \in ViewFilters, lg \in LogOutcomes :
         ViewExpenses(p, f, lg)

SpecLog == InitLog /\ [][NextLog]_vars

\* Two tracker processes of the same user.
TwoProcs == {1, 2}

\* Both processes have loaded the same object.
InitTwo ==
    \E snap \in InitSnapshots, exists \in BOOLEAN :
       /\ (~exists => snap = <<>>)
       /\ Startup(TwoProcs, snap, exists, "none", LogUp)

\* Each process makes one add or delete call, in any order.
NextTwo ==
    \/ \E p \in TwoProcs, in \in AddInputs, ok \in BOOLEAN :
         /\ lastOf[p].op = "init"
         /\ AddExpense(p, in[1], in[2], in[3], ok, LogUp)
    \/ \E p \in TwoProcs, id \in Ids, ok \in BOOLEAN :
         /\ lastOf[p].op = "init"
         /\ DeleteExpense(p, id, ok, LogUp)

SpecTwo == InitTwo /\ [][NextTwo]_vars

----------------------------------------------------------------------------
(* Vocabulary of the properties, stated without the operators of the model. *)

\* The ledger of the process that made the last call.
Ledger == expenses[last.proc]

\* The records of the stored object; a missing object holds none.
RemoteData == IF remote.exists THEN remote.data ELSE <<>>

IsBlank(s) == \A i \in 1 .. Len(s) : s[i] \in Whitespace

\* t is s without its leading and trailing whitespace.
IsTrimOf(t, s) ==
    \E i \in 1 .. Len(s) + 1, j \in 0 .. Len(s) :
       /\ t = SubSeq(s, i, j)
       /\ \A k \in 1 .. Len(s) : (k < i \/ k > j) => s[k] \in Whitespace
       /\ t # <<>> => (t[1] \notin Whitespace /\ t[Len(t)] \notin Whitespace)

\* r is a whole number of hundredths (a multiple of 10 thousandths) nearest
\* to m; when m ends in 5 both neighbours are, and the float decides.
IsRound2Of(r, m) ==
    /\ r % 10 = 0
    /\ r - m \in -5 .. 5

HasId(exps, id) == \E i \in 1 .. Len(exps) : exps[i].id = id

\* exps without its k-th record, the others in their order.
IsWithout(rest, exps, k) ==
    /\ Len(rest) = Len(exps) - 1
    /\ \A j \in 1 .. Len(rest) : rest[j] = IF j < k THEN exps[j] ELSE exps[j + 1]

IdsDistinct(exps) ==
    \A i, j \in 1 .. Len(exps) : i # j => exps[i].id # exps[j].id

WellFormed(exps) ==
    \A i \in 1 .. Len(exps) : exps[i].amount > 0 /\ ~IsBlank(exps[i].description)

WithCategory(exps, c) == { i \in 1 .. Len(exps) : exps[i].category = c }

RECURSIVE AmountOf(_, _)
AmountOf(exps, S) ==
    IF S = {} THEN 0
    ELSE LET i == CHOOSE x \in S : TRUE
         IN  exps[i].amount + AmountOf(exps, S \ {i})

RECURSIVE CountOf(_, _)
CountOf(categories, S) ==
    IF S = {} THEN 0
    ELSE LET c == CHOOSE x \in S : TRUE
         IN  categories[c].count + CountOf(categories, S \ {c})

AddIsValid == last.op = "add" /\ last.amount > 0 /\ ~IsBlank(last.description)

----------------------------------------------------------------------------
(* Properties *)

\* C1: an add_expense with amount > 0 and a description that is not blank,
\* whose storage write succeeds, returns True and appends exactly one record
\* to the unchanged earlier records: id = previous length + 1, the trimmed
\* description and the amount rounded to 2 places.
C1_AddAppendsOne ==
    (AddIsValid /\ last.putOk) =>
        /\ last.ret = TRUE
        /\ Len(Ledger) = Len(last.pre) + 1
        /\ SubSeq(Ledger, 1, Len(last.pre)) = last.pre
        /\ Ledger[Len(Ledger)].id = Len(last.pre) + 1
        /\ IsTrimOf(Ledger[Len(Ledger)].description, last.description)
        /\ IsRound2Of(Ledger[Len(Ledger)].amount, last.amount)

\* C1 witness: a successful add to a non-empty ledger whose description was
\* trimmed and whose amount was rounded.
C1_Witness ==
    /\ AddIsValid /\ last.putOk /\ last.ret
    /\ last.pre # <<>>
    /\ Ledger[Len(Ledger)].description # last.description
    /\ Ledger[Len(Ledger)].amount # last.amount

\* C2: an add_expense with amount <= 0 or a blank description returns False,
\* leaves the ledger as it was and writes nothing to storage.
C2_InvalidAddRejected ==
    (last.op = "add" /\ (last.amount <= 0 \/ IsBlank(last.description))) =>
        /\ last.ret = FALSE
        /\ Ledger = last.pre
        /\ ~last.wrote
        /\ remote = last.preRemote

\* C2 witness: an add with amount 0 and a non-blank description was rejected
\* on a non-empty ledger.
C2_Witness ==
    /\ last.op = "add" /\ last.amount = 0 /\ ~IsBlank(last.description)
    /\ last.pre # <<>> /\ ~last.ret

\* C3: when the storage write of a validated add_expense fails, the call
\* returns False and the ledger is the sequence it was before the call.
C3_AddRollback ==
    (AddIsValid /\ last.wrote /\ ~last.putOk) =>
        /\ last.ret = FALSE
        /\ Ledger = last.pre

\* C3 witness: a validated add to a non-empty ledger whose write failed.
C3_Witness ==
    /\ AddIsValid /\ last.wrote /\ ~last.putOk
    /\ last.pre # <<>>

\* C4: when the storage write of a delete_expense of a present id fails, the
\* call returns False and the ledger is the same ordered sequence as before.
C4_DeleteRollbackKeepsOrder ==
    (last.op = "delete" /\ HasId(last.pre, last.id) /\ ~last.putOk) =>
        /\ last.ret = FALSE
        /\ Ledger = last.pre

\* C5: a delete_expense of a present id whose storage write succeeds returns
\* True and removes exactly the first record with that id; every other
\* record, later ones with the same id included, stays in its order.
C5_DeleteRemovesFirstMatch ==
    (last.op = "delete" /\ HasId(last.pre, last.id) /\ last.putOk) =>
        /\ last.ret = TRUE
        /\ \E k \in 1 .. Len(last.pre) :
              /\ last.pre[k].id = last.id
              /\ \A j \in 1 .. k - 1 : last.pre[j].id # last.id
              /\ IsWithout(Ledger, last.pre, k)

\* C5 witness: a successful delete of an id that two different records carried.
C5_Witness ==
    /\ last.op = "delete" /\ last.putOk /\ last.ret
    /\ \E i, j \in 1 .. Len(last.pre) :
          /\ i < j
          /\ last.pre[i].id = last.id /\ last.pre[j].id = last.id
          /\ last.pre[i] # last.pre[j]

\* C6: a delete_expense of an id that no record carries returns False, leaves
\* the ledger as it was and writes nothing to storage.
C6_DeleteUnknownId ==
    (last.op = "delete" /\ ~HasId(last.pre, last.id)) =>
        /\ last.ret = FALSE
        /\ Ledger = last.pre
        /\ ~last.wrote
        /\ remote = last.preRemote

\* C6 witness: a delete of an absent id on a non-empty ledger.
C6_Witness ==
    /\ last.op = "delete" /\ ~HasId(last.pre, last.id)
    /\ last.pre # <<>> /\ ~last.ret

\* C7: in a process whose startup load succeeded, between calls the ledger
\* equals the last successfully persisted snapshot.
C7_LedgerEqualsSnapshot ==
    \A p \in Procs : loadOk[p] => expenses[p] = RemoteData

\* C8: no two records of a ledger have the same id.
C8_IdsUnique ==
    \A p \in Procs : IdsDistinct(expenses[p])

\* C9: every record of the ledger and of the stored snapshot has amount > 0
\* and a description that is not blank.
C9_RecordsWellFormed ==
    /\ \A p \in Procs : WellFormed(expenses[p])
    /\ WellFormed(RemoteData)

\* C10: get_expense_summary aggregates the ledger: the number of records,
\* the sum of their amounts rounded to 2 places, per category the number and
\* the sum of the records of exactly that category, counts that add up to the
\* number of records, zeros and no category for an empty ledger; it changes
\* neither the ledger nor the stored snapshot.
C10_SummaryAggregates ==
    last.op = "summary" =>
        LET s == last.summary
            present == { Ledger[i].category : i \in 1 .. Len(Ledger) }
        IN  /\ s.total_expenses = Len(Ledger)
            /\ IsRound2Of(s.total_amount, AmountOf(Ledger, 1 .. Len(Ledger)))
            /\ DOMAIN s.categories = present
            /\ \A c \in present :
                  /\ s.categories[c].count = Cardinality(WithCategory(Ledger, c))
                  /\ s.categories[c].amount = AmountOf(Ledger, WithCategory(Ledger, c))
            /\ CountOf(s.categories, present) = s.total_expenses
            /\ Ledger = <<>> => (s.total_amount = 0 /\ s.categories = <<>>)
            /\ Ledger = last.pre
            /\ remote = last.preRemote

\* C10 witness: a summary of a ledger with two categories, one of them on
\* two records.
C10_Witness ==
    /\ last.op = "summary"
    /\ Cardinality(DOMAIN last.summary.categories) = 2
    /\ \E c \in DOMAIN last.summary.categories : last.summary.categories[c].count = 2

\* The steps of the last call that are puts, and those that are audit entries.
PutSteps == { i \in 1 .. Len(last.steps) : last.steps[i].kind = "put" }

AuditSteps ==
    { i \in 1 .. Len(last.steps) :
         /\ last.steps[i].kind = "log"
         /\ last.steps[i].level \in {"ADD_EXPENSE", "DELETE_EXPENSE"} }

LogSteps == { i \in 1 .. Len(last.steps) : last.steps[i].kind = "log" }

LogServiceFails(lg) == lg.stream = "error" \/ ~lg.put

InLedger(r, exps) == \E i \in 1 .. Len(exps) : exps[i] = r

\* C11: whatever the log service and the storage service do, neither
\* upload_expenses_to_s3 nor log_action raises, the upload (whose result a
\* validated add_expense or delete_expense returns) is True exactly when the
\* put succeeded, and the call returns what it returns, and leaves the ledger
\* it leaves, with the log service at work.
C11_LoggingNeverBreaks ==
    last.op \in {"add", "delete"} =>
        /\ ~last.raised
        /\ last.wrote => (last.ret = last.putOk)
        /\ last.op = "add" =>
              /\ Ledger = AddLedger(last.pre, last.description, last.amount,
                                    last.category, last.putOk, LogUp)
              /\ last.ret = AddReturn(last.description, last.amount, last.putOk, LogUp)
        /\ last.op = "delete" =>
              /\ Ledger = DeleteLedger(last.pre, last.id, last.putOk, LogUp)
              /\ last.ret = DeleteReturn(last.pre, last.id, last.putOk, LogUp)

\* C11 witness: an add whose put succeeded while create_log_stream failed
\* returned True.
C11_Witness ==
    /\ last.op = "add" /\ last.putOk /\ last.ret
    /\ last.lg.stream = "error"
    /\ Len(Ledger) = Len(last.pre) + 1

\* C12: download_expenses_from_s3 never raises; it returns the stored
\* records when the object exists and parses, and nothing when the object is
\* missing or the get or the parse fails; a missing object is logged with
\* INFO and every other failure with ERROR, the entry reaching the log
\* stream when the log service is at work.
C12_DownloadNeverRaises ==
    last.op = "init" =>
        /\ ~last.raised
        /\ (remote.exists /\ last.fault = "none") => Ledger = remote.data
        /\ (~remote.exists \/ last.fault # "none") => Ledger = <<>>
        /\ (~remote.exists /\ last.fault = "none") =>
              \E i \in LogSteps : last.steps[i].level = "INFO"
        /\ last.fault # "none" =>
              \E i \in LogSteps : last.steps[i].level = "ERROR"
        /\ \A i \in LogSteps : last.steps[i].ok = ~LogServiceFails(last.lg)

\* C12 witness: the object holds records, get_object fails with a
\* ClientError other than NoSuchKey while put_log_events fails too, and the
\* ledger starts empty.
C12_Witness ==
    /\ last.op = "init" /\ last.fault = "client" /\ ~last.lg.put
    /\ remote.exists /\ remote.data # <<>>
    /\ Ledger = <<>>

\* C13: view_expenses leaves the ledger as it was and calls log_action
\* exactly once, with the filter and the number of records shown; the
\* records shown are those whose category equals the filter ignoring case
\* (all when there is no filter), in ledger order.
C13_ViewLogsOnce ==
    last.op = "view" =>
        /\ Ledger = last.pre
        /\ last.shown = SelectSeq(Ledger,
                            LAMBDA e : \/ last.filter = <<>>
                                       \/ Lower(e.category) = Lower(last.filter))
        /\ Cardinality(LogSteps) = 1
        /\ \A i \in LogSteps : last.steps[i].info = << last.filter, Len(last.shown) >>

\* C14: an add_expense or delete_expense that passes validation or lookup
\* changes the list, then puts the whole changed list exactly once, then
\* logs; the ADD_EXPENSE or DELETE_EXPENSE entry is logged exactly when the
\* put succeeded; a call that does not pass puts nothing; so the puts
\* attempted equal the calls that passed.
C14_OneWriteThenAudit ==
    /\ balance = 0
    /\ last.op \in {"add", "delete"} =>
          /\ Cardinality(PutSteps) = (IF last.wrote THEN 1 ELSE 0)
          /\ (AuditSteps # {}) = last.putOk
          /\ Cardinality(AuditSteps) <= 1
          /\ \A i \in AuditSteps :
                /\ \A j \in PutSteps : j < i
                /\ last.steps[i].level =
                      (IF last.op = "add" THEN "ADD_EXPENSE" ELSE "DELETE_EXPENSE")
          /\ last.wrote =>
                /\ last.steps[1].kind = (IF last.op = "add" THEN "append" ELSE "pop")
                /\ PutSteps = {2}
                /\ last.steps[2].ok = last.putOk
                /\ last.putOk => RemoteData = last.steps[2].info
                /\ last.op = "add" =>
                      /\ Len(last.steps[2].info) = Len(last.pre) + 1
                      /\ SubSeq(last.steps[2].info, 1, Len(last.pre)) = last.pre
                /\ last.op = "delete" =>
                      \E k \in 1 .. Len(last.pre) :
                         /\ last.pre[k].id = last.id
                         /\ IsWithout(last.steps[2].info, last.pre, k)

\* C14 witness: a delete of a present id whose put failed, after which the
\* record was appended again and no DELETE_EXPENSE entry was logged.
C14_Witness ==
    /\ last.op = "delete" /\ last.wrote /\ ~last.putOk
    /\ Len(last.steps) = 4
    /\ last.steps[4].kind = "append"
    /\ Len(last.pre) >= 2

\* Both processes of SpecTwo have made a call whose put succeeded.
BothWrote == \A p \in TwoProcs : lastOf[p].op \in {"add", "delete"} /\ lastOf[p].putOk

\* C15: when two processes that loaded the same snapshot have each made a
\* call whose put succeeded, both calls returned True, the stored snapshot
\* is the ledger of the process that wrote last, which that process made
\* from the snapshot loaded at startup, and the write of the other process,
\* which was in storage in between, is overwritten.
C15_LastWriterWins ==
    BothWrote =>
        \E q \in TwoProcs, o \in TwoProcs :
           /\ q = last.proc /\ o # q
           /\ lastOf[q].ret /\ lastOf[o].ret
           /\ RemoteData = expenses[q]
           /\ lastOf[q].pre = lastOf[o].pre
           /\ last.preRemote.data = expenses[o]

\* C15 witness: both adds returned True and the stored snapshot lacks the
\* record that the first process added.
C15_Witness ==
    /\ BothWrote
    /\ \E o \in TwoProcs :
          /\ o # last.proc
          /\ lastOf[o].op = "add" /\ lastOf[o].ret
          /\ last.op = "add" /\ last.ret
          /\ ~InLedger(expenses[o][Len(expenses[o])], RemoteData)

\* C16: after an add_expense that returned True, every record that was in
\* the stored snapshot before the call is still in it.
C16_AddKeepsStoredRecords ==
    (last.op = "add" /\ last.ret) =>
        \A i \in 1 .. Len(last.preRemote.data) :
           InLedger(last.preRemote.data[i], RemoteData)

=============================================================================
